---- MODULE Spec2Model ----
(***************************************************************************)
(* Model of the lazy-signals reactive graph: the commands that create      *)
(* states, computed memos and effects and that send or trigger a signal    *)
(* (src/src/commands.rs), the registrar systems (src/src/systems/init.rs)  *)
(* and the memo system (src/src/systems/computed.rs).  The cell type       *)
(* (LazySignalsState), the commit system and the effect system are not     *)
(* part of the sources at hand and follow the written specification.       *)
(***************************************************************************)
EXTENDS Integers, Sequences, FiniteSets, TLC

\* Number of entity handles the application may allocate.
NumEntities == 3

\* Longest sources / triggers list the application passes to a create call.
MaxSources == 2

\* Most computed memos and most effects the application creates.
MaxComputed == 1

MaxEffects == 1

\* Most send / trigger commands the application issues between two ticks.
MaxCmds == 2

Entities == 1..NumEntities

\* The handle of an entity the application despawned: get_entity finds nothing.
Gone == 0

\* Every handle the application may hold.
HandleIds == Entities \cup {Gone}

\* Payload types and their values.
StateTypes == {"bool"}

PayloadTypes == {"bool", "str"}

Data(T) == IF T = "bool" THEN {"false", "true"} ELSE {"no", "yes"}

\* Option<Result<T, Error>>
None == [tag |-> "None", val |-> ""]

Ok(v) == [tag |-> "Ok", val |-> v]

Err(e) == [tag |-> "Err", val |-> e]

Range(s) == {s[i] : i \in 1..Len(s)}

\* Handle lists an application passes as sources or triggers: lists of distinct
\* handles among those it has obtained so far, despawned ones included.
HandleLists(obtained) ==
    {s \in UNION {[1..k -> obtained] : k \in 0..MaxSources} : Cardinality(Range(s)) = Len(s)}

VARIABLES
    pc,                 \* position of the host schedule
    nextEntity,         \* number of handles allocated so far
    state,              \* entity -> LazySignalsState cell, or NoCell
    computed,           \* entity -> ComputedImmutable, or NoNode
    effect,             \* entity -> LazyEffect, or NoNode
    RebuildSubscribers, \* entities holding the RebuildSubscribers marker
    SendSignal,         \* entities holding the SendSignal marker
    ComputeMemo,        \* entities holding the ComputeMemo marker
    changed,            \* handles whose commit reported "changed" this tick
    frontier,           \* cells committed "changed" by the commit pass this tick
    invoked,            \* computed -> invocations of its function this tick
    ran,                \* effect -> invocations of its function this tick
    args,               \* effect -> tuple of its last invocation
    ops,                \* entity -> kinds of the updates staged on it this tick
    created,            \* entities created since the last tick ended
    cmds,               \* send / trigger commands the application applied in this tick
    declared,           \* entity -> sources list the application passed
    errors              \* messages those commands logged with error!

vars == <<pc, nextEntity, state, computed, effect, RebuildSubscribers, SendSignal,
          ComputeMemo, changed, frontier, invoked, ran, args, ops, created, cmds, declared,
          errors>>

graph == <<nextEntity, state, computed, effect, RebuildSubscribers, declared>>

tickLog == <<changed, frontier, invoked, ran, args>>

NoCell == [ty |-> "none", current |-> None, pending |-> None, force_flag |-> FALSE,
           subscribers |-> {}, staged_subscribers |-> {}]

NoNode == [function |-> "none", sources |-> <<>>, triggers |-> <<>>]

HasCell(e) == state[e].ty # "none"

\* world.get_entity(e) finds the entity.
get_entity(e) == e \in 1..nextEntity

IsComputed(e) == computed[e].function # "none"

IsEffect(e) == effect[e].function # "none"

\* LazySignalsState::<T>::new(data)
NewState(T, data) == [ty |-> T, current |-> data, pending |-> None, force_flag |-> FALSE,
                      subscribers |-> {}, staged_subscribers |-> {}]

\* merge_next(value, force)
merge_next(c, value, force) == [c EXCEPT !.pending = value, !.force_flag = force]

\* Value equality of two optional results; an error equals nothing.
ValueEq(a, b) == a.tag # "Err" /\ b.tag # "Err" /\ a = b

\* commit() reports "changed"
CommitChanges(c) == c.pending # None /\ (c.force_flag \/ ~ValueEq(c.pending, c.current))

\* commit()
commit(c) == IF c.pending = None THEN c
             ELSE IF CommitChanges(c)
                  THEN [c EXCEPT !.current = c.pending, !.pending = None, !.force_flag = FALSE]
                  ELSE [c EXCEPT !.pending = None, !.force_flag = FALSE]

\* merge_subscribers()
merge_subscribers(c) == [c EXCEPT !.subscribers = c.subscribers \cup c.staged_subscribers,
                                  !.staged_subscribers = {}]

\* read(handle)
read(h) == state[h].current

\* allocate()
Allocate == nextEntity + 1

\* computed1_fn of the example: None while the first parameter is absent, the
\* second parameter (or a greeting) when it is true, a refusal when it is false.
computed1_fn(params) ==
    IF params = <<>> \/ params[1].tag = "None" THEN None
    ELSE IF params[1].tag = "Err" THEN params[1]
    ELSE IF params[1].val = "true"
         THEN IF Len(params) >= 2 /\ params[2].tag = "Ok"
              THEN Ok(params[2].val) ELSE Ok("Greetings, Starfighter")
         ELSE Ok("You are not authorized to view this")

\* No update staged on a cell yet in this tick.
NoOps == [last |-> "none", trig |-> FALSE, val |-> "", eq |-> FALSE]

\* The staging log of a cell after one more send (force = FALSE) or trigger.
Staged(e, force, data) ==
    [last |-> IF force THEN "trigger" ELSE "send",
     trig |-> ops[e].trig \/ force,
     val |-> data,
     eq |-> ValueEq(Ok(data), state[e].current)]

Init ==
    /\ pc = "app"
    /\ nextEntity = 0
    /\ state = [e \in HandleIds |-> NoCell]
    /\ computed = [e \in HandleIds |-> NoNode]
    /\ effect = [e \in HandleIds |-> NoNode]
    /\ RebuildSubscribers = {}
    /\ SendSignal = {}
    /\ ComputeMemo = {}
    /\ changed = {}
    /\ frontier = {}
    /\ invoked = [e \in Entities |-> 0]
    /\ ran = [e \in Entities |-> 0]
    /\ args = [e \in Entities |-> <<>>]
    /\ ops = [e \in Entities |-> NoOps]
    /\ created = {}
    /\ cmds = 0
    /\ declared = [e \in Entities |-> <<>>]
    /\ errors = <<>>

\* CreateStateCommand::apply
CreateStateCommand(e, T, data) ==
    /\ state' = [state EXCEPT ![e] = NewState(T, Ok(data))]
    /\ UNCHANGED <<computed, effect, RebuildSubscribers>>

create_state ==
    /\ pc = "app"
    /\ nextEntity < NumEntities
    /\ \E T \in StateTypes : \E data \in Data(T) :
         CreateStateCommand(Allocate, T, data)
    /\ nextEntity' = Allocate
    /\ created' = created \cup {Allocate}
    /\ UNCHANGED <<pc, SendSignal, ComputeMemo, tickLog, ops, cmds, declared, errors>>

\* CreateComputedCommand::apply
CreateComputedCommand(e, function, sources, R) ==
    /\ state' = [state EXCEPT ![e] = NewState(R, None)]
    /\ computed' = [computed EXCEPT ![e] =
                      [function |-> function, sources |-> sources, triggers |-> <<>>]]
    /\ RebuildSubscribers' = RebuildSubscribers \cup {e}
    /\ UNCHANGED effect

\* An Entity is a plain value, and the sources may name the entity about to be
\* spawned.
create_computed ==
    /\ pc = "app"
    /\ nextEntity < NumEntities
    /\ Cardinality({e \in Entities : IsComputed(e)}) < MaxComputed
    /\ \E sources \in HandleLists((1..Allocate) \cup {Gone}) :
         /\ CreateComputedCommand(Allocate, "computed1_fn", sources, "str")
         /\ declared' = [declared EXCEPT ![Allocate] = sources]
    /\ nextEntity' = Allocate
    /\ created' = created \cup {Allocate}
    /\ UNCHANGED <<pc, SendSignal, ComputeMemo, tickLog, ops, cmds, errors>>

\* CreateEffectCommand::apply with the two handle lists stored in each other's field.
CreateEffectCommand_swapped(e, function, sources, triggers) ==
    /\ effect' = [effect EXCEPT ![e] =
                    [function |-> function, sources |-> triggers, triggers |-> sources]]
    /\ RebuildSubscribers' = RebuildSubscribers \cup {e}
    /\ UNCHANGED <<state, computed>>

\* CreateEffectCommand::apply
CreateEffectCommand(e, function, sources, triggers) ==
    /\ effect' = [effect EXCEPT ![e] =
                    [function |-> function, sources |-> sources, triggers |-> triggers]]
    /\ RebuildSubscribers' = RebuildSubscribers \cup {e}
    /\ UNCHANGED <<state, computed>>

create_effect ==
    /\ pc = "app"
    /\ nextEntity < NumEntities
    /\ Cardinality({e \in Entities : IsEffect(e)}) < MaxEffects
    /\ \E sources \in HandleLists((1..nextEntity) \cup {Gone}),
          triggers \in HandleLists(1..nextEntity) :
         /\ Len(sources) + Len(triggers) <= MaxSources
         /\ CreateEffectCommand(Allocate, "effect_fn", sources, triggers)
         /\ declared' = [declared EXCEPT ![Allocate] = sources]
    /\ nextEntity' = Allocate
    /\ created' = created \cup {Allocate}
    /\ UNCHANGED <<pc, SendSignal, ComputeMemo, tickLog, ops, cmds, errors>>

\* SendSignalCommand::apply with the force flag set, as a trigger does.
SendSignalCommand_forced(signal, T, data) ==
    IF state[signal].ty = T
    THEN /\ state' = [state EXCEPT ![signal] = merge_next(@, Ok(data), TRUE)]
         /\ SendSignal' = SendSignal \cup {signal}
         /\ ops' = [ops EXCEPT ![signal] = Staged(signal, FALSE, data)]
         /\ UNCHANGED errors
    ELSE /\ errors' = Append(errors, IF get_entity(signal) THEN "could not get Immutable"
                                                           ELSE "could not get Signal")
         /\ UNCHANGED <<state, SendSignal, ops>>

\* SendSignalCommand::apply without the insertion of the SendSignal marker.
SendSignalCommand_unmarked(signal, T, data) ==
    IF state[signal].ty = T
    THEN /\ state' = [state EXCEPT ![signal] = merge_next(@, Ok(data), FALSE)]
         /\ SendSignal' = SendSignal
         /\ ops' = [ops EXCEPT ![signal] = Staged(signal, FALSE, data)]
         /\ UNCHANGED errors
    ELSE /\ errors' = Append(errors, IF get_entity(signal) THEN "could not get Immutable"
                                                           ELSE "could not get Signal")
         /\ UNCHANGED <<state, SendSignal, ops>>

\* SendSignalCommand::apply writing the value into the cell at once.
SendSignalCommand_direct(signal, T, data) ==
    IF state[signal].ty = T
    THEN /\ state' = [state EXCEPT ![signal].current = Ok(data)]
         /\ SendSignal' = SendSignal \cup {signal}
         /\ ops' = [ops EXCEPT ![signal] = Staged(signal, FALSE, data)]
         /\ UNCHANGED errors
    ELSE /\ errors' = Append(errors, IF get_entity(signal) THEN "could not get Immutable"
                                                           ELSE "could not get Signal")
         /\ UNCHANGED <<state, SendSignal, ops>>

\* SendSignalCommand::apply keeping an update that is already staged.
SendSignalCommand_first_wins(signal, T, data) ==
    IF state[signal].ty = T
    THEN /\ state' = [state EXCEPT ![signal] =
                        IF @.pending = None THEN merge_next(@, Ok(data), FALSE) ELSE @]
         /\ SendSignal' = SendSignal \cup {signal}
         /\ ops' = [ops EXCEPT ![signal] = Staged(signal, FALSE, data)]
         /\ UNCHANGED errors
    ELSE /\ errors' = Append(errors, IF get_entity(signal) THEN "could not get Immutable"
                                                           ELSE "could not get Signal")
         /\ UNCHANGED <<state, SendSignal, ops>>

\* SendSignalCommand::apply inserting the SendSignal marker on any entity found.
SendSignalCommand_marks_entity(signal, T, data) ==
    IF state[signal].ty = T
    THEN /\ state' = [state EXCEPT ![signal] = merge_next(@, Ok(data), FALSE)]
         /\ SendSignal' = SendSignal \cup {signal}
         /\ ops' = [ops EXCEPT ![signal] = Staged(signal, FALSE, data)]
         /\ UNCHANGED errors
    ELSE /\ errors' = Append(errors, IF get_entity(signal) THEN "could not get Immutable"
                                                           ELSE "could not get Signal")
         /\ SendSignal' = IF get_entity(signal) THEN SendSignal \cup {signal} ELSE SendSignal
         /\ UNCHANGED <<state, ops>>

\* SendSignalCommand::apply
SendSignalCommand(signal, T, data) ==
    IF state[signal].ty = T
    THEN /\ state' = [state EXCEPT ![signal] = merge_next(@, Ok(data), FALSE)]
         /\ SendSignal' = SendSignal \cup {signal}
         /\ ops' = [ops EXCEPT ![signal] = Staged(signal, FALSE, data)]
         /\ UNCHANGED errors
    ELSE /\ errors' = Append(errors, IF get_entity(signal) THEN "could not get Immutable"
                                                           ELSE "could not get Signal")
         /\ UNCHANGED <<state, SendSignal, ops>>

send_signal ==
    /\ pc = "app"
    /\ cmds < MaxCmds
    /\ cmds' = cmds + 1
    /\ \E signal \in HandleIds, T \in PayloadTypes : \E data \in Data(T) :
         SendSignalCommand(signal, T, data)
    /\ UNCHANGED <<pc, nextEntity, computed, effect, RebuildSubscribers, ComputeMemo,
                   tickLog, created, declared>>

\* TriggerSignalCommand::apply with the force flag left clear, as a send does.
TriggerSignalCommand_unforced(signal, T, data) ==
    IF state[signal].ty = T
    THEN /\ state' = [state EXCEPT ![signal] = merge_next(@, Ok(data), FALSE)]
         /\ SendSignal' = SendSignal \cup {signal}
         /\ ops' = [ops EXCEPT ![signal] = Staged(signal, TRUE, data)]
         /\ UNCHANGED errors
    ELSE /\ errors' = Append(errors, IF get_entity(signal) THEN "could not get Immutable"
                                                           ELSE "could not get Signal")
         /\ UNCHANGED <<state, SendSignal, ops>>

\* TriggerSignalCommand::apply without the insertion of the SendSignal marker.
TriggerSignalCommand_unmarked(signal, T, data) ==
    IF state[signal].ty = T
    THEN /\ state' = [state EXCEPT ![signal] = merge_next(@, Ok(data), TRUE)]
         /\ SendSignal' = SendSignal
         /\ ops' = [ops EXCEPT ![signal] = Staged(signal, TRUE, data)]
         /\ UNCHANGED errors
    ELSE /\ errors' = Append(errors, IF get_entity(signal) THEN "could not get Immutable"
                                                           ELSE "could not get Signal")
         /\ UNCHANGED <<state, SendSignal, ops>>

\* TriggerSignalCommand::apply
TriggerSignalCommand(signal, T, data) ==
    IF state[signal].ty = T
    THEN /\ state' = [state EXCEPT ![signal] = merge_next(@, Ok(data), TRUE)]
         /\ SendSignal' = SendSignal \cup {signal}
         /\ ops' = [ops EXCEPT ![signal] = Staged(signal, TRUE, data)]
         /\ UNCHANGED errors
    ELSE /\ errors' = Append(errors, IF get_entity(signal) THEN "could not get Immutable"
                                                           ELSE "could not get Signal")
         /\ UNCHANGED <<state, SendSignal, ops>>

trigger_signal ==
    /\ pc = "app"
    /\ cmds < MaxCmds
    /\ cmds' = cmds + 1
    /\ \E signal \in HandleIds, T \in PayloadTypes : \E data \in Data(T) :
         TriggerSignalCommand(signal, T, data)
    /\ UNCHANGED <<pc, nextEntity, computed, effect, RebuildSubscribers, ComputeMemo,
                   tickLog, created, declared>>

\* The application's systems are over for this tick and the host starts the
\* engine's systems.
begin_tick ==
    /\ pc = "app"
    /\ pc' = "init_effects"
    /\ cmds' = 0
    /\ errors' = <<>>
    /\ UNCHANGED <<graph, SendSignal, ComputeMemo, tickLog, ops, created>>

\* subscribe(entity, source, ..): register_subscriber on the source's cell,
\* skipped when the source holds no cell.
subscribe(cells, entity, source) ==
    IF cells[source].ty # "none"
    THEN [cells EXCEPT ![source].staged_subscribers = @ \cup {entity}]
    ELSE cells

RECURSIVE SubscribeList(_, _, _)
SubscribeList(cells, entity, subs) ==
    IF subs = <<>> THEN cells
    ELSE SubscribeList(subscribe(cells, entity, Head(subs)), entity, Tail(subs))

RECURSIVE SubscribeAll(_, _, _)
SubscribeAll(cells, hierarchy, nodes) ==
    IF nodes = {} THEN cells
    ELSE LET entity == CHOOSE x \in nodes : TRUE
         IN SubscribeAll(SubscribeList(cells, entity, hierarchy[entity]),
                         hierarchy, nodes \ {entity})

\* The closures init_effects and init_memos pass: which list to subscribe to.
subs_closure(x, which) == IF which = "triggers" THEN x.triggers ELSE x.sources

\* subscribe_effect_subs: the result is the cells and the markers left.
subscribe_effect_subs(w, which) ==
    LET query_effects == {e \in w.rebuild : IsEffect(e)}
        hierarchy == [e \in query_effects |-> subs_closure(effect[e], which)]
    IN [cells |-> SubscribeAll(w.cells, hierarchy, query_effects),
        rebuild |-> w.rebuild \ query_effects]

\* subscribe_propagator_subs
subscribe_propagator_subs(w, which) ==
    LET query_propagators == {e \in w.rebuild : IsComputed(e)}
        hierarchy == [e \in query_propagators |-> subs_closure(computed[e], which)]
    IN [cells |-> SubscribeAll(w.cells, hierarchy, query_propagators),
        rebuild |-> w.rebuild \ query_propagators]

\* init_effects
init_effects ==
    /\ pc = "init_effects"
    /\ LET w0 == [cells |-> state, rebuild |-> RebuildSubscribers]
           w1 == subscribe_effect_subs(w0, "sources")
           w2 == subscribe_effect_subs(w1, "triggers")
       IN /\ state' = w2.cells
          /\ RebuildSubscribers' = w2.rebuild
    /\ pc' = "init_memos"
    /\ UNCHANGED <<nextEntity, computed, effect, declared, SendSignal, ComputeMemo,
                   tickLog, ops, created, cmds, errors>>

\* init_memos
init_memos ==
    /\ pc = "init_memos"
    /\ LET w0 == [cells |-> state, rebuild |-> RebuildSubscribers]
           w1 == subscribe_propagator_subs(w0, "sources")
       IN /\ state' = w1.cells
          /\ RebuildSubscribers' = w1.rebuild
    /\ pc' = "send_signals"
    /\ UNCHANGED <<nextEntity, computed, effect, declared, SendSignal, ComputeMemo,
                   tickLog, ops, created, cmds, errors>>

\* The commit pass: commit() on every cell holding the SendSignal marker, mark
\* the computed subscribers of the changed cells, then merge_subscribers().
send_signals ==
    /\ pc = "send_signals"
    /\ LET query_signals == {e \in SendSignal : HasCell(e)}
           hits == {e \in query_signals : CommitChanges(state[e])}
           subs == UNION {state[e].subscribers : e \in hits}
       IN /\ state' = [e \in HandleIds |->
                         merge_subscribers(IF e \in query_signals
                                           THEN commit(state[e]) ELSE state[e])]
          /\ frontier' = hits
          /\ changed' = changed \cup hits
          /\ ComputeMemo' = ComputeMemo \cup {e \in subs : IsComputed(e)}
    /\ SendSignal' = {}
    /\ pc' = "compute_memos"
    /\ UNCHANGED <<nextEntity, computed, effect, declared, RebuildSubscribers,
                   invoked, ran, args, ops, created, cmds, errors>>

\* compute_memos running a marked memo once for each of its changed sources.
compute_memos_per_source ==
    /\ pc = "compute_memos"
    /\ pc' = "apply_effects"
    /\ invoked' = [e \in Entities |->
                     IF e \in ComputeMemo /\ IsComputed(e)
                     THEN invoked[e] + Cardinality(Range(computed[e].sources) \cap changed)
                     ELSE invoked[e]]
    /\ UNCHANGED <<graph, SendSignal, ComputeMemo, changed, frontier, ran, args, ops,
                   created, cmds, errors>>

\* compute_memos evaluating every memo of the graph, marked or not.
compute_memos_every ==
    /\ pc = "compute_memos"
    /\ pc' = "apply_effects"
    /\ invoked' = [e \in Entities |-> IF IsComputed(e) THEN invoked[e] + 1 ELSE invoked[e]]
    /\ UNCHANGED <<graph, SendSignal, ComputeMemo, changed, frontier, ran, args, ops,
                   created, cmds, errors>>

\* compute_memos
compute_memos ==
    /\ pc = "compute_memos"
    /\ pc' = "apply_effects"
    /\ UNCHANGED <<graph, SendSignal, ComputeMemo, tickLog, ops, created, cmds, errors>>

\* The value tuple of a subscriber: the current value of each source, in order.
Tuple(sources) == [i \in 1..Len(sources) |-> state[sources[i]].current]

\* The effects the dispatcher selects.
Selected(e) ==
    /\ IsEffect(e)
    /\ \/ (Range(effect[e].sources) \cup Range(effect[e].triggers)) \cap changed # {}
       \/ Range(effect[e].triggers) \cap frontier # {}

\* The effect pass.
apply_effects ==
    /\ pc = "apply_effects"
    /\ ran' = [e \in Entities |-> IF Selected(e) THEN ran[e] + 1 ELSE ran[e]]
    /\ args' = [e \in Entities |-> IF Selected(e) THEN Tuple(effect[e].sources) ELSE args[e]]
    /\ pc' = "done"
    /\ UNCHANGED <<graph, SendSignal, ComputeMemo, changed, frontier, invoked, ops, created,
                   cmds, errors>>

\* The tick is over; the next one starts with an empty log.
end_tick ==
    /\ pc = "done"
    /\ pc' = "app"
    /\ changed' = {}
    /\ frontier' = {}
    /\ invoked' = [e \in Entities |-> 0]
    /\ ran' = [e \in Entities |-> 0]
    /\ args' = [e \in Entities |-> <<>>]
    /\ ops' = [e \in Entities |-> NoOps]
    /\ created' = {}
    /\ UNCHANGED <<graph, SendSignal, ComputeMemo, cmds, errors>>

----------------------------------------------------------------------------
\* Vocabulary of the properties.

\* The engine's systems have all run for this tick.
TickDone == pc = "done"

\* The handles an effect lists.
Handles(e) == Range(effect[e].sources) \cup Range(effect[e].triggers)

\* Every update staged on h in this tick was a plain send and the value left
\* staged equals the cell's current value.
EqualSendOnly(h) == ops[h].last = "send" /\ ~ops[h].trig /\ ops[h].eq

\* The tuple of the current values of the sources the application declared.
DeclaredTuple(e) == [i \in 1..Len(declared[e]) |-> read(declared[e][i])]

\* An effect with no sources and the single trigger t.
TriggerOnly(e, t) == IsEffect(e) /\ effect[e].sources = <<>> /\ effect[e].triggers = <<t>>

----------------------------------------------------------------------------
\* C1: in every tick each computed node's function is invoked at most once,
\* however many of its sources changed.
C1_Idempotence == \A e \in Entities : invoked[e] <= 1

\* C1 witness: a propagation pass is over for a memo marked for recompute whose
\* two sources both changed in this tick.
C1_Witness ==
    /\ pc \in {"apply_effects", "done"}
    /\ \E c \in ComputeMemo :
         /\ IsComputed(c)
         /\ Cardinality(Range(computed[c].sources) \cap changed) >= 2
         /\ invoked[c] <= 1

\* C3: when the updates staged on h in a tick are plain sends of h's current
\* value, then after the tick h is not in the changed set nor in the frontier,
\* no computed node is re-evaluated and no effect runs unless another of its
\* handles changed.
C3_ShortCircuit ==
    TickDone =>
      \A h \in Entities :
        EqualSendOnly(h) =>
          /\ h \notin changed
          /\ h \notin frontier
          /\ state[h].pending = None
          /\ \A c \in state[h].subscribers :
               IsComputed(c) /\ Range(computed[c].sources) \cap changed = {}
                 => invoked[c] = 0
          /\ \A e \in Entities :
               IsEffect(e) /\ ran[e] > 0 => (Handles(e) \ {h}) \cap changed # {}

\* C3 witness: a tick is over in which a cell with a subscriber and an effect
\* listing it only received a send of its current value.
C3_Witness ==
    /\ TickDone
    /\ \E h \in Entities :
         /\ EqualSendOnly(h)
         /\ state[h].subscribers # {}
         /\ \E e \in Entities : IsEffect(e) /\ h \in Handles(e) /\ ran[e] = 0
         /\ h \notin changed

\* C4 as stated: in every tick in which a trigger was applied to h, h ends up
\* in the changed set, or at least every effect listing h as a trigger fires.
C4_Original ==
    TickDone =>
      \A h \in Entities :
        ops[h].trig =>
          \/ h \in changed
          \/ \A e \in Entities : IsEffect(e) /\ h \in Range(effect[e].triggers) => ran[e] >= 1

\* C4 amended: in every tick in which the last update applied to h was a
\* trigger, h ends up in the changed set and holds the triggered value.
C4_TriggerPropagates ==
    TickDone =>
      \A h \in Entities :
        ops[h].last = "trigger" => h \in changed /\ read(h) = Ok(ops[h].val)

\* C4 witness: a tick is over in which a cell was last triggered with its
\* current value and is in the changed set.
C4_Witness ==
    /\ TickDone
    /\ \E h \in Entities : ops[h].last = "trigger" /\ ops[h].eq /\ h \in changed

\* C5 as stated: a node created and wired during a tick is not evaluated or
\* invoked in that tick.
C5_VisibilityDelay ==
    TickDone =>
      \A n \in created :
        /\ IsEffect(n) => ran[n] = 0
        /\ IsComputed(n) => invoked[n] = 0 /\ n \notin ComputeMemo

\* C6 as stated: after initialisation and after every tick in which one of its
\* sources changed, a computed node's cell holds the result of its function
\* over its sources' current values.
C6_ComputedHoldsResult ==
    TickDone =>
      \A c \in Entities :
        /\ IsComputed(c)
        /\ c \in created \/ Range(computed[c].sources) \cap changed # {}
        /\ computed1_fn(Tuple(computed[c].sources)) # None
        => read(c) = computed1_fn(Tuple(computed[c].sources))

\* C7: in a tick in which a source of an effect is in the changed set, the
\* effect is invoked exactly once, with the tuple of the current values its
\* declared sources hold after propagation, in declared order.
C7_EffectOnce ==
    TickDone =>
      \A e \in Entities :
        IsEffect(e) /\ Range(declared[e]) \cap changed # {}
          => ran[e] = 1 /\ args[e] = DeclaredTuple(e)

\* C7 witness: a tick is over in which both sources of an effect changed and
\* the effect ran once.
C7_Witness ==
    /\ TickDone
    /\ \E e \in Entities :
         /\ IsEffect(e)
         /\ Len(declared[e]) = 2
         /\ Range(declared[e]) \subseteq changed
         /\ ran[e] = 1

\* C8 as stated: an effect with no sources and the single trigger t is invoked
\* zero times by plain sends of t's current value and exactly once in a tick
\* containing a trigger of t.
C8_Original ==
    TickDone =>
      \A e, t \in Entities :
        TriggerOnly(e, t) =>
          /\ EqualSendOnly(t) => ran[e] = 0
          /\ ops[t].trig => ran[e] = 1

\* C8 amended: such an effect is invoked zero times by plain sends of t's
\* current value and exactly once in a tick whose last update of t is a trigger.
C8_TriggerOnlyEffect ==
    TickDone =>
      \A e, t \in Entities :
        TriggerOnly(e, t) =>
          /\ EqualSendOnly(t) => ran[e] = 0
          /\ ops[t].last = "trigger" => ran[e] = 1 /\ args[e] = <<>>

\* C8 witness: a tick is over in which t was triggered with its current value
\* and the effect triggered by t alone ran once.
C8_Witness ==
    /\ TickDone
    /\ \E e, t \in Entities :
         TriggerOnly(e, t) /\ ops[t].last = "trigger" /\ ops[t].eq /\ ran[e] = 1

\* C10: after a tick whose last update of a signal h is a send of a value that
\* differs from h's current value, read(h) is Some(Ok(v)) and nothing is left
\* pending.
C10_SendReadRoundTrip ==
    TickDone =>
      \A h \in Entities :
        HasCell(h) /\ ~IsComputed(h) /\ ops[h].last = "send" /\ ~ops[h].eq
          => read(h) = Ok(ops[h].val) /\ state[h].pending = None

\* C10 witness: a tick is over in which a signal was sent a value that differs
\* from the one it held.
C10_Witness ==
    /\ TickDone
    /\ \E h \in Entities :
         /\ HasCell(h) /\ ~IsComputed(h)
         /\ ops[h].last = "send" /\ ~ops[h].trig /\ ~ops[h].eq
         /\ read(h) = Ok(ops[h].val)

\* C11: a send or a trigger changes no cell's current value, and the current
\* value of a cell that exists changes in the commit step only, so a read
\* between two commit points returns the same last-committed value.
C11_StableRead ==
    [][\A h \in HandleIds :
         HasCell(h) /\ state'[h].current # state[h].current => pc = "send_signals"]_vars

\* C11 witness: the application has staged, on a cell, a value that differs
\* from the one the cell still reads.
C11_Witness ==
    /\ pc = "app"
    /\ \E h \in Entities :
         /\ HasCell(h)
         /\ ops[h].last # "none" /\ ~ops[h].eq
         /\ state[h].pending = Ok(ops[h].val)
         /\ read(h) # state[h].pending

\* The commit pass of this tick has not run yet.
BeforeCommit == pc \in {"app", "init_effects", "init_memos", "send_signals"}

\* C12: whatever sends and triggers were applied to a cell before a commit
\* point, the cell holds one pending update, the value and the force flag of
\* the last call, and after the commit the cell reads that value.
C12_LastWriteWins ==
    \A h \in Entities :
      ops[h].last # "none" =>
        IF BeforeCommit
        THEN /\ state[h].pending = Ok(ops[h].val)
             /\ state[h].force_flag = (ops[h].last = "trigger")
        ELSE /\ state[h].pending = None
             /\ read(h) = Ok(ops[h].val)

\* C12 witness: a tick is over in which a cell was triggered and then sent a
\* value that differs from the one it held, and reads the value sent last.
C12_Witness ==
    /\ TickDone
    /\ \E h \in Entities :
         /\ ops[h].trig /\ ops[h].last = "send" /\ ~ops[h].eq
         /\ h \in changed
         /\ read(h) = Ok(ops[h].val)

\* C13: a send or a trigger addressed to a handle that is not in the world, or
\* whose entity holds no cell of the payload type, changes no cell, adds no
\* SendSignal marker and leaves the schedule where it was; a command changes
\* only a cell that exists and stages on it a value of the cell's own type.
C13_MissingHandleNoOp ==
    [][cmds' = cmds + 1 =>
         /\ UNCHANGED <<pc, nextEntity, computed, effect, RebuildSubscribers, ComputeMemo,
                        tickLog, created, declared>>
         /\ errors' # errors => UNCHANGED <<state, SendSignal, ops>>
         /\ \A h \in HandleIds :
              /\ ~HasCell(h) => state'[h] = state[h] /\ h \notin SendSignal'
              /\ state'[h] # state[h] => state'[h].pending.val \in Data(state[h].ty)]_vars

\* C13 witness: with a cell in the graph, the application addressed one command
\* to a handle that is not in the world and one to an entity without a cell of
\* the payload type, and no cell was marked or staged.
C13_Witness ==
    /\ pc = "app"
    /\ \E h \in Entities : HasCell(h)
    /\ Range(errors) = {"could not get Signal", "could not get Immutable"}
    /\ SendSignal = {}
    /\ \A h \in Entities : state[h].pending = None /\ ops[h] = NoOps

\* The handles a node lists as sources.
SourcesOf(n) == IF IsComputed(n) THEN Range(computed[n].sources)
                ELSE IF IsEffect(n) THEN Range(effect[n].sources) ELSE {}

\* The handles reachable from a set of handles through source edges.
RECURSIVE SourceClosure(_)
SourceClosure(S) ==
    LET T == S \cup UNION {SourcesOf(x) : x \in S}
    IN IF T = S THEN S ELSE SourceClosure(T)

\* The transitive sources of a node.
TransitiveSources(n) == SourceClosure(SourcesOf(n))

\* The computed node is on a cycle of source edges.
OnCycle(c) == IsComputed(c) /\ c \in TransitiveSources(c)

\* C14 as stated: once the propagation pass is over for a computed node that is
\* marked for recompute and lies on a cycle of source edges, the node was not
\* evaluated and a CycleDetected error has been surfaced.
C14_CycleDetected ==
    pc \in {"apply_effects", "done"} =>
      \A c \in ComputeMemo :
        OnCycle(c) => invoked[c] = 0 /\ "CycleDetected" \in Range(errors)

\* The node is registered, staged or active, on the cell of h.
Registered(n, h) == n \in state[h].subscribers \cup state[h].staged_subscribers

\* C15 as stated: a computed or effect node that no longer holds the
\* RebuildSubscribers marker is registered on the cell of every handle of its
\* sources list and, for an effect, of its triggers list, that holds a cell.
C15_RegistrarComplete ==
    \A n \in Entities :
      (IsComputed(n) \/ IsEffect(n)) /\ n \notin RebuildSubscribers =>
        \A h \in Range(computed[n].sources) \cup Handles(n) :
          HasCell(h) => Registered(n, h)

\* C16 as stated: an effect runs in every tick in which the cell of one of its
\* trigger handles had a pending value committed, changed or not.
C16_Original ==
    TickDone =>
      \A e, t \in Entities :
        IsEffect(e) /\ t \in Range(effect[e].triggers) /\ ops[t].last # "none"
          => ran[e] >= 1

\* C16 amended: an effect runs once in every tick in which the cell of one of
\* its trigger handles committed "changed", that is when the update staged last
\* was a trigger or a send of a differing value; a commit that reports
\* "unchanged" puts the handle in no frontier, and an effect that runs has a
\* handle in the changed set.
C16_TriggerEdge ==
    TickDone =>
      \A e \in Entities :
        IsEffect(e) =>
          /\ \A t \in Range(effect[e].triggers) \cap Entities :
               /\ ops[t].last = "trigger" \/ (ops[t].last = "send" /\ ~ops[t].eq)
                    => t \in frontier /\ ran[e] = 1
               /\ ops[t].last = "send" /\ ops[t].eq => t \notin frontier
          /\ ran[e] >= 1 => Handles(e) \cap changed # {}

\* C16 witness: a tick is over in which an effect with a source and a trigger
\* ran once because its trigger handle was triggered with the value it held,
\* while its source did not change.
C16_Witness ==
    /\ TickDone
    /\ \E e, t \in Entities :
         /\ IsEffect(e)
         /\ effect[e].sources # <<>>
         /\ Range(effect[e].sources) \cap changed = {}
         /\ t \in Range(effect[e].triggers)
         /\ ops[t].last = "trigger" /\ ops[t].eq
         /\ t \in frontier
         /\ ran[e] = 1

RegistrarDone == pc \in {"send_signals", "compute_memos", "apply_effects", "done"}

\* C20 as stated: once the registrar has run, a computed or effect node that
\* lists a handle which is no longer in the world holds no RebuildSubscribers
\* marker, is registered on the cell of each of its other source and trigger
\* handles, and runs only if one of those changed.
C20_DanglingHandle ==
    RegistrarDone =>
      \A n \in Entities :
        (IsComputed(n) \/ IsEffect(n)) /\ Gone \in SourcesOf(n) \cup Handles(n) =>
          /\ n \notin RebuildSubscribers
          /\ \A h \in (SourcesOf(n) \cup Handles(n)) \ {Gone} :
               HasCell(h) => Registered(n, h)
          /\ invoked[n] > 0 \/ ran[n] > 0 => (SourcesOf(n) \cup Handles(n)) \cap changed # {}

\* No creation and no send or trigger reached the graph in this tick.
QuietTick == created = {} /\ \A h \in Entities : ops[h] = NoOps

\* C21 as stated: after a full tick in which nothing was created, sent or
\* triggered, no cell has a pending value or a set force flag, every staged
\* subscriber set is empty and no node holds a RebuildSubscribers, SendSignal
\* or ComputeMemo marker.
C21_Quiescence ==
    TickDone /\ QuietTick =>
      /\ \A h \in HandleIds :
           /\ state[h].pending = None
           /\ ~state[h].force_flag
           /\ state[h].staged_subscribers = {}
      /\ RebuildSubscribers = {}
      /\ SendSignal = {}
      /\ ComputeMemo = {}

\* The values a cell of a source handle may hold.
CellValues(h) ==
    {None} \cup (IF HasCell(h) THEN {Ok(d) : d \in Data(state[h].ty)} ELSE {})

\* The tuples over which a computed node's function may be invoked.
ParamTuples(c) ==
    {p \in [1..Len(computed[c].sources) -> UNION {CellValues(h) : h \in HandleIds}] :
       \A i \in 1..Len(computed[c].sources) : p[i] \in CellValues(computed[c].sources[i])}

\* C22 as stated: the cell of a computed node holds no pending value staged by
\* a send or a trigger and no SendSignal marker, and its current value is
\* absent or a result of the node's own function.
C22_ComputedWrittenByEvaluation ==
    \A c \in Entities :
      IsComputed(c) =>
        /\ state[c].pending = None
        /\ c \notin SendSignal
        /\ ops[c] = NoOps
        /\ read(c) \in {None} \cup {computed1_fn(p) : p \in ParamTuples(c)}

----------------------------------------------------------------------------
Next ==
    \/ create_state
    \/ create_computed
    \/ create_effect
    \/ send_signal
    \/ trigger_signal
    \/ begin_tick
    \/ init_effects
    \/ init_memos
    \/ send_signals
    \/ compute_memos
    \/ apply_effects
    \/ end_tick

Spec == Init /\ [][Next]_vars
====
